---- MODULE Spec2Model ----
(***************************************************************************)
(* Model of instrumentserver's client session (client/core.py, class       *)
(* BaseClient and the helper sendRequest).                                  *)
(*                                                                          *)
(* The session's fields are the variables connected .. recv_timeout.  The  *)
(* transport is the sequence chans of every socket the program created     *)
(* (a socket's identity is its index; each socket has a context of its     *)
(* own, with the same index), and the server is the set pending of         *)
(* requests it has received and not answered.  Every method of the class   *)
(* is an operator from the session record and the transport to the result  *)
(* of the call; an action applies one method to the variables.  ask blocks *)
(* in recv: what it does up to the wait and what it does from there on are *)
(* two operators and two actions, and the network, the server and signals  *)
(* act in between.  connect can block too, in the termination of the       *)
(* context it drops when it rebinds self.socket: what it does before and   *)
(* after that wait are two operators and two actions as well.              *)
(*                                                                          *)
(* The second part models loadConfig (config.py): configDoc is the content *)
(* of the configuration file and loaded is what one call of loadConfig     *)
(* produced from it.                                                        *)
(***************************************************************************)
EXTENDS Integers, Sequences, FiniteSets

VARIABLES
    connected,         \* self.connected
    context,           \* self.context   (0 is None, else the id of the zmq.Context)
    socket,            \* self.socket    (0 is None, else an index of chans)
    host,              \* self.host
    port,              \* self.port
    addr,              \* self.addr
    raise_exceptions,  \* self.raise_exceptions
    recv_timeout,      \* self.recv_timeout
    chans,             \* every socket created so far, in creation order
    pending,           \* requests the server received and has not answered
    nreq,              \* number of requests put on the wire so far
    scope,             \* "out" / "in": whether the caller is inside `with cli:`
    unwinding,         \* the exception leaving the body of the with block
    last,              \* the most recent call: its name, inputs, pre-state, position, result
    configDoc,         \* the configuration file: its instruments, in file order
    loaded             \* loadConfig's position and what it returned or raised

cliVars == <<connected, context, socket, host, port, addr, raise_exceptions, recv_timeout>>
vars == <<connected, context, socket, host, port, addr, raise_exceptions, recv_timeout,
          chans, pending, nreq, scope, unwinding, last, configDoc, loaded>>
cfgVars == <<configDoc, loaded>>
sessionVars == <<connected, context, socket, host, port, addr, raise_exceptions, recv_timeout,
                 chans, pending, nreq, scope, unwinding, last>>

----------------------------------------------------------------------------
\* Bounds of the model.
MaxChan == 2    \* sockets created in one behaviour
MaxReq == 2     \* requests sent in one behaviour
MaxInstruments == 2   \* instruments in one configuration file

\* Program constants.
NoSock == 0
DefaultTimeout == 5000
\* RCVTIMEO of a socket as context.socket(zmq.REQ) returns it: wait for ever.
NoTimeout == -1

Hosts == {"localhost"}
\* A host that gives an address socket.connect() rejects: the caller passed
\* an endpoint where a host name belongs.
BadHosts == {"tcp://localhost"}
Ports == {5555, 5556}
Timeouts == {100, DefaultTimeout}
\* The (port, timeout) pairs sessions are constructed with.
SessionConfigs == {<<5555, DefaultTimeout>>, <<5556, 100>>}
Messages == {"ping", "get"}

\* f"tcp://{host}:{port}"
Addr(h, p) == <<"tcp://", h, ":", p>>

----------------------------------------------------------------------------
\* Values and exceptions.  The type of an exception is its Python class.
None == "None"
NoValue == "<no value returned>"
\* The session object itself, as __enter__ returns it.
Self == "self"

NoExc == [type |-> "none", payload |-> "none"]
StateError == [type |-> "RuntimeError", payload |-> "No connection yet."]
TimeoutError == [type |-> "RuntimeError", payload |-> "Server did not reply before timeout."]
AttributeError == [type |-> "AttributeError", payload |-> "'NoneType' object has no attribute 'close'"]
ZMQError == [type |-> "ZMQError", payload |-> "Operation cannot be accomplished in current state"]
\* ZMQError as socket.connect(addr) raises it for an address it cannot parse.
InvalidArgument == [type |-> "ZMQError", payload |-> "Invalid argument"]
\* zmq.error.Again as recv raises it: no reply within RCVTIMEO.
Again == [type |-> "zmq.error.Again", payload |-> "Resource temporarily unavailable"]
\* An exception a signal handler raises while the thread waits in recv.
KeyboardInterrupt == [type |-> "KeyboardInterrupt", payload |-> "signal during the wait"]
UnrecognizedErrorShape(err) == [type |-> "TypeError", payload |-> err.payload]
\* `raise err`: the exception object the server put in the envelope, of the
\* class the server gave it.
ServerError(err) == [type |-> err.payload, payload |-> "sent by the server"]

\* ServerResponse.error: None, a str, a Warning, an Exception (named by its
\* class), or anything else.
ErrNone == [kind |-> "NoneType", payload |-> "none"]
Errors ==
    { ErrNone,
      [kind |-> "str", payload |-> "unknown parameter"],
      [kind |-> "Warning", payload |-> "deprecated call"],
      [kind |-> "Exception", payload |-> "ValueError"],
      [kind |-> "Exception", payload |-> "zmq.error.Again"],
      [kind |-> "other", payload |-> "42"] }

\* isinstance(err, cls) for the classes ask tests; Warning derives from Exception.
IsInstance(err, cls) ==
    \/ err.kind = cls
    \/ err.kind = "Warning" /\ cls = "Exception"

\* The server's answer to a message.
Answer(message) == IF message = "ping" THEN "pong" ELSE "value"

\* ServerResponse(message, error); req is the request it answers.
ServerResponse(message, error, req) == [message |-> message, error |-> error, req |-> req]
NoReply == [message |-> None, error |-> ErrNone, req |-> 0]

Count(seq, x) == Cardinality({i \in 1..Len(seq) : seq[i] = x})

\* The element of a set of one: {e(v) : v \in {x}} is e with v standing for
\* the value of x, computed once.
Only(S) == CHOOSE r \in S : TRUE

----------------------------------------------------------------------------
\* The session object as a record.
Cli == [connected |-> connected, context |-> context, socket |-> socket, host |-> host,
        port |-> port, addr |-> addr, raise_exceptions |-> raise_exceptions,
        recv_timeout |-> recv_timeout]

\* A socket.  fsm is "ready" when the socket takes a send now and "awaiting"
\* when it does not: it waits for a reply, or it has no endpoint yet.  outbox
\* holds the request sent and not yet taken by the peer, inbox the replies
\* that arrived; interrupted records that a wait on the socket was broken
\* off; terminating that Context.term() is running on its context; abandoned
\* that Context.term() on its context was broken off by a signal.

\* The address of a socket that was not connected to any.
NoPeer == <<>>

\* zmq.Context(); context.socket(zmq.REQ): a socket with the defaults of the
\* library, connected to nothing.
RawSocket ==
    [open |-> TRUE, rcvtimeo |-> NoTimeout, peer |-> NoPeer, fsm |-> "awaiting",
     inbox |-> <<>>, outbox |-> <<>>, interrupted |-> FALSE, terminating |-> FALSE,
     abandoned |-> FALSE]

\* setsockopt(RCVTIMEO, timeout); connect(addr), on the socket just created.
Configured(sock, timeout, address) ==
    [sock EXCEPT !.rcvtimeo = timeout, !.peer = address, !.fsm = "ready"]

\* The socket connect() leaves when it has run to its end.
NewSocket(timeout, address) == Configured(RawSocket, timeout, address)

\* socket.close(): the socket is gone and so is what it had received; with the
\* default LINGER a request still queued stays with the context.
Close(chs, s) == [chs EXCEPT ![s].open = FALSE, ![s].inbox = <<>>]

\* Socket.__del__ and Context.__del__: the socket is closed if it was not, and
\* the context terminates.  Context.term() returns at once unless a request
\* is still queued on the closed socket.
Finalized(chs, s) == [Close(chs, s) EXCEPT ![s].terminating = (chs[s].outbox # <<>>)]

\* The program gives up its last reference to socket s and its context.  They
\* are destroyed at once when nothing else refers to them and the interpreter
\* counts references; otherwise later, or never.
Drop(chs, s, collected) ==
    IF s # NoSock /\ collected THEN Finalized(chs, s) ELSE chs

\* Context.term() returns only when every request queued on the context's
\* closed sockets has been handed to a peer: until then the thread is blocked.
Blocked(chs) == \E s \in 1..Len(chs) : chs[s].terminating

\* A signal arrives while the thread waits in Context.term(): the wait ends,
\* the exception the signal handler raises is discarded in Context.__del__,
\* and the request stays queued on the closed socket.
termInterrupted(chs) ==
    [s \in 1..Len(chs) |->
        IF chs[s].terminating
        THEN [chs[s] EXCEPT !.terminating = FALSE, !.abandoned = TRUE]
        ELSE chs[s]]

\* How a wait in Context.term() ends: by a signal, or because the peer took
\* what was queued.
termEnds(chs, signal) == IF signal THEN Blocked(chs) ELSE ~Blocked(chs)

\* socket.connect(addr) accepts the address: the host part is a host name.
WellFormed(address) == address[2] \notin BadHosts

\* connect, first part: self.context = zmq.Context() and self.socket =
\* self.context.socket(zmq.REQ).  Nothing is closed; the socket and context
\* the session referred to before are dropped by the second assignment, and
\* when they are destroyed there the thread waits in Context.term() for as
\* long as a request is queued on the old socket.
connectRebind(c, chs, collected) ==
    LET id == Len(chs) + 1
    IN  [cli |-> [c EXCEPT !.context = id, !.socket = id],
         chans |-> Append(Drop(chs, c.socket, collected), RawSocket)]

\* connect, second part: setsockopt(RCVTIMEO, self.recv_timeout),
\* self.socket.connect(self.addr), self.connected = True.
\* When socket.connect raises, the receive timeout is set, the socket is bound
\* to self.socket and open, and connected is what it was.
connectFinish(c, chs) ==
    IF WellFormed(c.addr)
    THEN [cli |-> [c EXCEPT !.connected = TRUE],
          chans |-> [chs EXCEPT ![c.socket] = Configured(@, c.recv_timeout, c.addr)],
          exc |-> NoExc]
    ELSE [cli |-> c,
          chans |-> [chs EXCEPT ![c.socket].rcvtimeo = c.recv_timeout],
          exc |-> InvalidArgument]

\* BaseClient.connect, up to its end or, if the old context does not
\* terminate at once, up to the wait (waits): then the session refers to the
\* new socket, which is not configured, and connected is what it was.
connect(c, chs, collected) ==
    LET b == connectRebind(c, chs, collected)
        f == connectFinish(b.cli, b.chans)
    IN  IF Blocked(b.chans)
        THEN [cli |-> b.cli, chans |-> b.chans, waits |-> TRUE, exc |-> NoExc,
              trace |-> <<"connect">>]
        ELSE [cli |-> f.cli, chans |-> f.chans, waits |-> FALSE, exc |-> f.exc,
              trace |-> <<"connect">>]

\* BaseClient.connect from the end of the wait, which a signal ended or the
\* peer did.
connectResume(c, chs, signal) ==
    LET f == connectFinish(c, IF signal THEN termInterrupted(chs) ELSE chs)
    IN  [cli |-> f.cli, chans |-> f.chans, waits |-> FALSE, exc |-> f.exc, trace |-> <<>>]

\* BaseClient.disconnect
disconnect(c, chs) ==
    IF c.socket = NoSock
    THEN [cli |-> c, chans |-> chs, exc |-> AttributeError, trace |-> <<"disconnect">>]
    ELSE [cli |-> [c EXCEPT !.connected = FALSE],
          chans |-> Close(chs, c.socket),
          exc |-> NoExc,
          trace |-> <<"disconnect", "close">>]

\* BaseClient.__init__
init(h, p, doConnect, timeout, raiseExc, chs) ==
    LET c0 == [connected |-> FALSE, context |-> NoSock, socket |-> NoSock, host |-> h,
               port |-> p, addr |-> Addr(h, p), raise_exceptions |-> raiseExc,
               recv_timeout |-> timeout]
    IN  IF doConnect
        THEN LET r == connect(c0, chs, FALSE)
             IN  [cli |-> r.cli, chans |-> r.chans, exc |-> r.exc,
                  trace |-> <<"__init__">> \o r.trace]
        ELSE [cli |-> c0, chans |-> chs, exc |-> NoExc, trace |-> <<"__init__">>]

\* BaseClient.__enter__: connect unless connected, return self.  When connect
\* waits, so does __enter__, and has returned nothing yet.
enter(c, chs, collected) ==
    IF ~c.connected
    THEN LET r == connect(c, chs, collected)
         IN  [cli |-> r.cli, chans |-> r.chans, waits |-> r.waits, exc |-> r.exc,
              value |-> IF r.waits THEN None ELSE IF r.exc # NoExc THEN NoValue ELSE Self,
              trace |-> <<"__enter__">> \o r.trace]
    ELSE [cli |-> c, chans |-> chs, waits |-> FALSE, exc |-> NoExc, value |-> Self,
          trace |-> <<"__enter__">>]

\* BaseClient.__enter__ from the end of the wait in connect: the rest of
\* connect, return self.
enterResume(c, chs, signal) ==
    LET r == connectResume(c, chs, signal)
    IN  [cli |-> r.cli, chans |-> r.chans, waits |-> FALSE, exc |-> r.exc,
         value |-> IF r.exc # NoExc THEN NoValue ELSE Self, trace |-> r.trace]

\* Variant: __exit__ does nothing.
exit_NoDisconnect(c, chs) ==
    [cli |-> c, chans |-> chs, exc |-> NoExc, suppress |-> FALSE, trace |-> <<"__exit__">>]

\* BaseClient.__exit__: runs disconnect and returns None.
exit(c, chs) ==
    LET r == disconnect(c, chs)
    IN  [cli |-> r.cli, chans |-> r.chans, exc |-> r.exc, suppress |-> FALSE,
         trace |-> <<"__exit__">> \o r.trace]

\* The with statement: what leaves the block, given the exception of the body
\* and the result of __exit__.
WithOutcome(bodyExc, x) ==
    IF x.exc # NoExc THEN x.exc
    ELSE IF bodyExc # NoExc /\ ~x.suppress THEN bodyExc
    ELSE NoExc

----------------------------------------------------------------------------
\* The transport primitives.

\* A REQ socket accepts a send only when open and not awaiting a reply.
CanSend(chs, s) == chs[s].open /\ chs[s].fsm = "ready"

\* send(socket, message): the request is queued on the socket, which from now
\* on awaits the reply.
send(chs, s, rq) == [chs EXCEPT ![s].fsm = "awaiting", ![s].outbox = <<rq>>]

\* A reply reaches the socket it is addressed to; one for a closed socket is dropped.
Deliver(chs, s, reply) ==
    IF chs[s].open THEN [chs EXCEPT ![s].inbox = Append(@, reply)] ELSE chs

\* recv(socket), when the wait ends: a signal handler raised, or the first
\* queued reply is returned, or RCVTIMEO ran out and zmq.error.Again is raised.
recv(chs, s, signal) ==
    IF signal
    THEN [exc |-> KeyboardInterrupt, ret |-> NoReply,
          chans |-> [chs EXCEPT ![s].interrupted = TRUE]]
    ELSE IF chs[s].inbox # <<>>
    THEN [exc |-> NoExc, ret |-> Head(chs[s].inbox),
          chans |-> [chs EXCEPT ![s].inbox = Tail(@), ![s].fsm = "ready"]]
    ELSE [exc |-> Again, ret |-> NoReply, chans |-> chs]

----------------------------------------------------------------------------
\* BaseClient.ask

\* Variant: the test asks whether a socket was ever made, not whether it is connected.
notConnected_NoSocket(c) == c.socket = NoSock

\* if not self.connected: raise RuntimeError("No connection yet.")
notConnected(c) == ~c.connected

\* Variant: a server exception is raised whatever the flag says.
raisesOnException_Always(raiseExc) == TRUE

\* if self.raise_exceptions, where the error is an Exception
raisesOnException(raiseExc) == raiseExc

\* Variant: an error of unknown type is raised whatever the flag says.
raisesOnUnknown_Always(raiseExc) == TRUE

\* if self.raise_exceptions, where the error is of no known type
raisesOnUnknown(raiseExc) == raiseExc

\* if self.raise_exceptions, in the timeout handler
raisesOnTimeout(raiseExc) == raiseExc

\* The isinstance chain over ret.error: the exception raised (or none) and the
\* diagnostic emitted.
classify(raiseExc, err) ==
    IF err = ErrNone THEN [exc |-> NoExc, diag |-> "none"]
    ELSE IF IsInstance(err, "str") THEN [exc |-> NoExc, diag |-> "logger.error"]
    ELSE IF IsInstance(err, "Warning") THEN [exc |-> NoExc, diag |-> "warnings.warn"]
    ELSE IF IsInstance(err, "Exception")
         THEN IF raisesOnException(raiseExc) THEN [exc |-> ServerError(err), diag |-> "none"]
              ELSE [exc |-> NoExc, diag |-> "logger.error"]
    ELSE IF raisesOnUnknown(raiseExc) THEN [exc |-> UnrecognizedErrorShape(err), diag |-> "none"]
         ELSE [exc |-> NoExc, diag |-> "logger.error"]

\* return ret.message
returned(ret) == ret.message

\* What the try block has done when it ends or raises.
Tried(chs, n, exc, value, reply, diag, trace) ==
    [chans |-> chs, nreq |-> n, exc |-> exc, value |-> value,
     reply |-> reply, diag |-> diag, trace |-> trace]

\* The try block up to the wait: send(self.socket, message).
trySend(c, chs, n, message) ==
    IF c.socket = NoSock
    THEN Tried(chs, n, AttributeError, NoValue, NoReply, "none", <<"send">>)
    ELSE IF ~CanSend(chs, c.socket)
    THEN Tried(chs, n, ZMQError, NoValue, NoReply, "none", <<"send">>)
    ELSE Tried(send(chs, c.socket, [chan |-> c.socket, req |-> n + 1, msg |-> message]),
               n + 1, NoExc, NoValue, NoReply, "none", <<"send">>)

\* The try block from the end of the wait: recv, classify, return.
tryRecv(c, chs, n, signal) ==
    LET rc == recv(chs, c.socket, signal)
    IN  IF rc.exc # NoExc
        THEN Tried(rc.chans, n, rc.exc, NoValue, NoReply, "none", <<"recv">>)
        ELSE LET cl == classify(c.raise_exceptions, rc.ret.error)
             IN  Tried(rc.chans, n, cl.exc,
                       IF cl.exc = NoExc THEN returned(rc.ret) ELSE NoValue,
                       rc.ret, cl.diag, <<"recv">>)

\* except zmq.error.Again as e: the clause matches by class, whatever raised
\* the exception.
exceptAgain(exc) == exc.type = "zmq.error.Again"

\* What the handler leaves: the exception it raises keeps the caught one, its
\* traceback and so the old socket alive; when it only logs, the old socket
\* and its context are dropped as the clause ends.
handlerEnd(c, chs, old, collected, trace) ==
    [cli |-> c,
     chans |-> IF raisesOnTimeout(c.raise_exceptions) THEN chs ELSE Drop(chs, old, collected),
     exc |-> IF raisesOnTimeout(c.raise_exceptions) THEN TimeoutError ELSE NoExc,
     diag |-> IF raisesOnTimeout(c.raise_exceptions) THEN "none" ELSE "logger.error",
     trace |-> trace]

\* Variant: the handler connects again and leaves the old socket open.
onTimeout_NoClose(c, chs, collected) ==
    LET r == connect(c, chs, FALSE)
    IN  handlerEnd(r.cli, r.chans, c.socket, FALSE, r.trace)

\* Variant: the handler raises or logs and keeps the socket.
onTimeout_KeepSocket(c, chs, collected) ==
    handlerEnd(c, chs, NoSock, FALSE, <<>>)

\* Variant: the handler keeps the socket and makes it ready to send again.
onTimeout_Reuse(c, chs, collected) ==
    handlerEnd(c, [chs EXCEPT ![c.socket].fsm = "ready", ![c.socket].outbox = <<>>],
               NoSock, FALSE, <<>>)

\* Variant: the handler closes the socket and does not connect again.
onTimeout_NoReconnect(c, chs, collected) ==
    handlerEnd(c, Close(chs, c.socket), NoSock, FALSE, <<"close">>)

\* The handler: close the socket, connect again, raise or log.  An exception
\* of connect leaves the handler as it is.
onTimeout(c, chs, collected) ==
    LET r == connect(c, Close(chs, c.socket), FALSE)
        h == handlerEnd(r.cli, r.chans, c.socket, collected, <<"close">> \o r.trace)
    IN  IF r.exc # NoExc
        THEN [h EXCEPT !.chans = r.chans, !.exc = r.exc, !.diag = "none"]
        ELSE h

\* What a call of ask has done when it ends, raises or starts to wait.
\* again: recv raised zmq.error.Again; timedout: the handler ran.
Outcome(c, chs, n, waits, exc, value, reply, again, timedout, diag, trace) ==
    [cli |-> c, chans |-> chs, nreq |-> n, waits |-> waits, exc |-> exc, value |-> value,
     reply |-> reply, again |-> again, timedout |-> timedout, diag |-> diag, trace |-> trace]

\* The except clause: an exception of the try block that is a zmq.error.Again
\* runs the handler, any other leaves ask.
tryExcept(c, b, collected) ==
    IF exceptAgain(b.exc)
    THEN LET t == onTimeout(c, b.chans, collected)
         IN  Outcome(t.cli, t.chans, b.nreq, FALSE, t.exc,
                     IF t.exc = NoExc THEN None ELSE NoValue,
                     b.reply, b.exc = Again, TRUE, t.diag, b.trace \o t.trace)
    ELSE Outcome(c, b.chans, b.nreq, FALSE, b.exc, b.value, b.reply, FALSE, FALSE,
                 b.diag, b.trace)

\* ask up to the wait in recv: the connected test and the send.  It has
\* ended when the test or the send raised, and waits otherwise.
askSend(c, chs, n, message) ==
    IF notConnected(c)
    THEN Outcome(c, chs, n, FALSE, StateError, NoValue, NoReply, FALSE, FALSE, "none",
                 <<"ask">>)
    ELSE LET b == trySend(c, chs, n, message)
         IN  IF b.exc = NoExc
             THEN Outcome(c, b.chans, b.nreq, TRUE, NoExc, NoValue, NoReply, FALSE, FALSE,
                          "none", <<"ask">> \o b.trace)
             ELSE LET o == tryExcept(c, b, FALSE)
                  IN  [o EXCEPT !.trace = <<"ask">> \o @]

\* Variant: after replacing the socket the handler sends the message again.
askRecv_Resend(c, chs, n, message, signal, collected) ==
    LET o == tryExcept(c, tryRecv(c, chs, n, signal), collected)
    IN  IF o.timedout
        THEN [o EXCEPT !.chans = send(@, o.cli.socket,
                                      [chan |-> o.cli.socket, req |-> n + 1, msg |-> message]),
                       !.nreq = n + 1,
                       !.trace = @ \o <<"send">>]
        ELSE o

\* ask from the end of the wait in recv: the reply is classified, or the
\* exception recv raised is handled or leaves ask.
askRecv(c, chs, n, message, signal, collected) ==
    tryExcept(c, tryRecv(c, chs, n, signal), collected)

\* What a call of sendRequest has done when it ends, raises or starts to wait.
Requested(c, a, exc, value, trace) ==
    [cli |-> c, chans |-> a.chans, nreq |-> a.nreq, waits |-> a.waits, exc |-> exc,
     value |-> value, askValue |-> a.value, reply |-> a.reply, again |-> a.again,
     timedout |-> a.timedout, diag |-> a.diag, trace |-> trace]

\* sendRequest up to the wait: BaseClient(host, port), __enter__, and ask up
\* to its wait.
sendRequestSend(message, h, p, chs, n) ==
    Only({ IF c0.exc # NoExc
           THEN Requested(c0.cli,
                          Outcome(c0.cli, c0.chans, n, FALSE, c0.exc, NoValue, NoReply, FALSE,
                                  FALSE, "none", <<>>),
                          c0.exc, NoValue, <<"sendRequest">> \o c0.trace)
           ELSE Only({ Only({ Requested(a.cli, a, a.exc, NoValue,
                                        <<"sendRequest">> \o c0.trace \o e.trace \o a.trace) :
                              a \in {askSend(e.cli, e.chans, n, message)} }) :
                       e \in {enter(c0.cli, c0.chans, FALSE)} }) :
           c0 \in {init(h, p, TRUE, DefaultTimeout, TRUE, chs)} })

\* sendRequest from the end of the wait: the rest of ask, __exit__, return
\* ret.  The session is a local of the call: when the call returns its socket
\* and context are dropped, when it raises the traceback keeps them.
sendRequestRecv(c, chs, n, message, signal, collected) ==
    LET a == askRecv(c, chs, n, message, signal, FALSE)
        x == exit(a.cli, a.chans)
        out == WithOutcome(a.exc, x)
    IN  Requested(x.cli,
                  [a EXCEPT !.chans = IF out = NoExc
                                      THEN Drop(x.chans, x.cli.socket, collected)
                                      ELSE x.chans],
                  out,
                  IF out # NoExc THEN NoValue
                  ELSE IF a.exc # NoExc THEN "UnboundLocalError" ELSE a.value,
                  a.trace \o x.trace)

----------------------------------------------------------------------------
\* loadConfig (config.py).

\* YAML values: null, a scalar, a mapping (a function from its keys).
Null == [null |-> TRUE]
Scalar(v) == [scalar |-> v]
Mapping(m) == [map |-> m]
EmptyMap == [k \in {} |-> Null]

\* Python dictionaries.
Has(d, k) == k \in DOMAIN d
\* Variant: the key is read and left in the dictionary.
Pop_Keep(d, k) == d
Pop(d, k) == [j \in DOMAIN d \ {k} |-> d[j]]
Put(d, k, v) == [j \in DOMAIN d \cup {k} |-> IF j = k THEN v ELSE d[j]]
\* {**a, **b}
Merge(a, b) == [j \in DOMAIN a \cup DOMAIN b |-> IF j \in DOMAIN b THEN b[j] ELSE a[j]]

\* SERVERFIELDS = {'initialize': True}, and the order .items() yields its keys in.
SERVERFIELDS == [initialize |-> Scalar("True")]
ServerFieldNames == <<"initialize">>

\* Variant: the default descriptor has no kwargs.
GUIFIELD_NoKwargs ==
    [type |-> Scalar("instrumentserver.gui.instruments.GenericInstrument")]

\* GUIFIELD = {'type': 'instrumentserver.gui.instruments.GenericInstrument', 'kwargs': {}}
GUIFIELD ==
    [type |-> Scalar("instrumentserver.gui.instruments.GenericInstrument"),
     kwargs |-> Mapping(EmptyMap)]

\* raise AttributeError(f'"{field}" field cannot be None')
NullFieldError(field) == [type |-> "AttributeError", payload |-> field]

\* Variant: a null setting is not detected.
IsNone_Never(v) == FALSE

\* fieldSetting is None
IsNone(v) == v = Null

\* yaml.load: the file's instruments as a mapping, with the order of its keys.
Load(text) ==
    [names |-> [i \in 1..Len(text) |-> text[i][1]],
     instruments |-> [n \in {text[i][1] : i \in 1..Len(text)} |->
                        (CHOOSE e \in {text[i] : i \in 1..Len(text)} : e[1] = n)[2]]]

\* yaml.dump: the mapping written out entry by entry.
Dump(raw) == [i \in 1..Len(raw.names) |-> <<raw.names[i], raw.instruments[raw.names[i]]>>]

\* for field, default in SERVERFIELDS.items(): pop the field or take its default.
RECURSIVE serverFields(_, _, _)
serverFields(fields, configDict, server) ==
    IF fields = <<>> THEN [exc |-> NoExc, server |-> server, rest |-> configDict]
    ELSE LET field == Head(fields)
         IN  IF Has(configDict, field)
             THEN IF IsNone(configDict[field])
                  THEN [exc |-> NullFieldError(field), server |-> server,
                        rest |-> Pop(configDict, field)]
                  ELSE serverFields(Tail(fields), Pop(configDict, field),
                                    Put(server, field, configDict[field]))
             ELSE serverFields(Tail(fields), configDict,
                               Put(server, field, SERVERFIELDS[field]))

\* guiDict['type'] == 'generic' or guiDict['type'] == 'Generic'
isGeneric(t) == t = Scalar("generic") \/ t = Scalar("Generic")

\* The gui sub-document of one instrument: popped and normalised, or GUIFIELD.
guiField(configDict) ==
    IF Has(configDict, "gui")
    THEN IF IsNone(configDict["gui"])
         THEN [exc |-> NullFieldError("gui"), gui |-> EmptyMap, rest |-> Pop(configDict, "gui")]
         ELSE LET guiDict == configDict["gui"].map
              IN  [exc |-> NoExc,
                   gui |-> IF Has(guiDict, "type")
                           THEN IF isGeneric(guiDict["type"])
                                THEN Put(guiDict, "type", GUIFIELD["type"])
                                ELSE guiDict
                           ELSE Put(guiDict, "type", GUIFIELD["type"]),
                   rest |-> Pop(configDict, "gui")]
    ELSE [exc |-> NoExc, gui |-> GUIFIELD, rest |-> configDict]

\* Variant: the server settings are left out of the merge.
fullEntry_NoServer(gui, configDict, server) ==
    Merge([gui |-> Mapping(gui)], configDict)

\* {'gui': guiConfig[name], **configDict, **serverConfig[name]}
fullEntry(gui, configDict, server) ==
    Merge(Merge([gui |-> Mapping(gui)], configDict), server)

\* The body of the loop for one instrument.
loadInstrument(configDict) ==
    LET sv == serverFields(ServerFieldNames, configDict, EmptyMap)
    IN  IF sv.exc # NoExc
        THEN [exc |-> sv.exc, server |-> sv.server, gui |-> EmptyMap, full |-> EmptyMap,
              rest |-> sv.rest]
        ELSE LET gv == guiField(sv.rest)
             IN  IF gv.exc # NoExc
                 THEN [exc |-> gv.exc, server |-> sv.server, gui |-> EmptyMap,
                       full |-> EmptyMap, rest |-> gv.rest]
                 ELSE [exc |-> NoExc, server |-> sv.server, gui |-> gv.gui,
                       full |-> fullEntry(gv.gui, gv.rest, sv.server), rest |-> gv.rest]

\* for instrumentName, configDict in rawConfig['instruments'].items()
RECURSIVE loadLoop(_, _, _, _, _)
loadLoop(names, rawConfig, serverConfig, guiConfig, fullConfig) ==
    IF names = <<>>
    THEN [exc |-> NoExc, rawConfig |-> rawConfig, serverConfig |-> serverConfig,
          guiConfig |-> guiConfig, fullConfig |-> fullConfig]
    ELSE LET name == Head(names)
             r == loadInstrument(rawConfig.instruments[name])
         IN  IF r.exc # NoExc
             THEN [exc |-> r.exc, rawConfig |-> rawConfig, serverConfig |-> serverConfig,
                   guiConfig |-> guiConfig, fullConfig |-> fullConfig]
             ELSE loadLoop(Tail(names),
                           [rawConfig EXCEPT !.instruments[name] = r.rest],
                           Put(serverConfig, name, r.server),
                           Put(guiConfig, name, r.gui),
                           Put(fullConfig, name, r.full))

\* What loadConfig has produced: nothing yet, its views and the residual
\* document written to the temporary file, or the exception it raised.
NotLoaded ==
    [pc |-> "start", exc |-> NoExc, serverConfig |-> EmptyMap, guiConfig |-> EmptyMap,
     fullConfig |-> EmptyMap, stationConfig |-> <<>>]

loadConfig(text) ==
    LET l == loadLoop(Load(text).names, Load(text), EmptyMap, EmptyMap, EmptyMap)
    IN  IF l.exc # NoExc
        THEN [pc |-> "raised", exc |-> l.exc, serverConfig |-> EmptyMap,
              guiConfig |-> EmptyMap, fullConfig |-> EmptyMap, stationConfig |-> <<>>]
        ELSE [pc |-> "returned", exc |-> NoExc, serverConfig |-> l.serverConfig,
              guiConfig |-> l.guiConfig, fullConfig |-> l.fullConfig,
              stationConfig |-> Dump(l.rawConfig)]

\* The configuration files the model loads.
InstrumentNames == <<"dmm", "vna", "awg", "lockin">>
ServerParts == {EmptyMap, [initialize |-> Null], [initialize |-> Scalar("False")]}
GuiDicts ==
    { [type |-> Scalar("generic")],
      [type |-> Scalar("Generic")],
      [type |-> Scalar("GENERIC"), kwargs |-> Mapping(EmptyMap)],
      [type |-> Scalar("my.gui.Custom"), kwargs |-> Mapping([arg |-> Scalar("1")])],
      [kwargs |-> Mapping([arg |-> Scalar("1")])] }
GuiParts == {EmptyMap, [gui |-> Null]} \cup {[gui |-> Mapping(g)] : g \in GuiDicts}
OtherParts ==
    { [type |-> Scalar("qcodes.Dummy")],
      [type |-> Scalar("qcodes.Dummy"), address |-> Scalar("GPIB::1")] }
InstrumentConfigs ==
    {Merge(Merge(a, b), c) : a \in ServerParts, b \in GuiParts, c \in OtherParts}

----------------------------------------------------------------------------
----------------------------------------------------------------------------
\* The record of a call: its name and inputs, the state it started from, how
\* far it has got and what it produced.  cli is the session the call works on.
\* pc is "recv" while the call waits in recv, "term" while it is blocked in
\* the termination of a context, "done" when it has returned or raised.

Position(chs) == IF Blocked(chs) THEN "term" ELSE "done"

\* Whether the most recent call on the session was an ask whose receive timed out.
PrevTimedOut ==
    IF last.op \in {"body", "sendRequest", "env"} THEN last.afterTimeout
    ELSE last.op = "ask" /\ last.again

\* What a call finds of the session's socket when it starts.
SocketSeen(c, chs) ==
    IF c.socket = NoSock THEN [open |-> FALSE, fsm |-> "none", interrupted |-> FALSE]
    ELSE [open |-> chs[c.socket].open, fsm |-> chs[c.socket].fsm,
          interrupted |-> chs[c.socket].interrupted]

Rec(op, message, bodyExc, pc, c, exc, value, askValue, reply, again, timedout, diag, trace) ==
    [op |-> op, message |-> message, bodyExc |-> bodyExc, pc |-> pc,
     pre |-> Cli, presock |-> SocketSeen(Cli, chans), prelen |-> Len(chans), prenreq |-> nreq,
     afterTimeout |-> PrevTimedOut,
     cli |-> c, exc |-> exc, value |-> value, askValue |-> askValue, reply |-> reply,
     again |-> again, timedout |-> timedout, diag |-> diag, trace |-> trace]

\* A step of the network, the server or the garbage collector: between calls
\* it is the most recent step, during a call it leaves the call's record alone.
Env ==
    IF last.pc = "done"
    THEN Rec("env", None, NoExc, "done", Cli, NoExc, NoValue, NoValue, NoReply, FALSE, FALSE,
             "none", <<>>)
    ELSE last

\* The call in last goes on from its wait with the result r.
Resumed(r, value, askValue) ==
    [last EXCEPT !.pc = Position(r.chans), !.cli = r.cli, !.exc = r.exc, !.value = value,
                 !.askValue = askValue, !.reply = r.reply, !.again = r.again,
                 !.timedout = r.timedout, !.diag = r.diag, !.trace = @ \o r.trace]

SetCli(c) ==
    /\ connected' = c.connected
    /\ context' = c.context
    /\ socket' = c.socket
    /\ host' = c.host
    /\ port' = c.port
    /\ addr' = c.addr
    /\ raise_exceptions' = c.raise_exceptions
    /\ recv_timeout' = c.recv_timeout

\* An exception raised by a call made in the body of a with block either is
\* handled in the body or leaves the block.
\* Whether the body handles an exception matters only inside a block.
Handled == IF scope = "in" THEN BOOLEAN ELSE {TRUE}

Leaves(exc, caught) == IF scope = "in" /\ exc # NoExc /\ ~caught THEN exc ELSE NoExc

\* The caller's thread is free to make a call.
Idle == last.pc = "done" /\ ~Blocked(chans)

SessionInit(h, p, doConnect, timeout, raiseExc) ==
    LET r == init(h, p, doConnect, timeout, raiseExc, <<>>)
    IN  /\ r.exc = NoExc
        /\ connected = r.cli.connected
        /\ context = r.cli.context
        /\ socket = r.cli.socket
        /\ host = r.cli.host
        /\ port = r.cli.port
        /\ addr = r.cli.addr
        /\ raise_exceptions = r.cli.raise_exceptions
        /\ recv_timeout = r.cli.recv_timeout
        /\ chans = r.chans
        /\ pending = {}
        /\ nreq = 0
        /\ scope = "out"
        /\ unwinding = NoExc
        /\ last = [op |-> "__init__", message |-> None, bodyExc |-> NoExc, pc |-> "done",
                   pre |-> r.cli, presock |-> SocketSeen(r.cli, r.chans), prelen |-> 0,
                   prenreq |-> 0, afterTimeout |-> FALSE,
                   cli |-> r.cli, exc |-> NoExc, value |-> None, askValue |-> NoValue,
                   reply |-> NoReply, again |-> FALSE, timedout |-> FALSE, diag |-> "none",
                   trace |-> r.trace]

Init ==
    /\ \/ \E h \in Hosts, pt \in SessionConfigs, doConnect \in BOOLEAN, raiseExc \in BOOLEAN :
               SessionInit(h, pt[1], doConnect, pt[2], raiseExc)
       \/ \E h \in BadHosts, raiseExc \in BOOLEAN :
               SessionInit(h, 5556, FALSE, 100, raiseExc)
    /\ configDoc = <<>>
    /\ loaded = NotLoaded

CallConnect(collected) ==
    /\ UNCHANGED cfgVars
    /\ Idle
    /\ unwinding = NoExc
    /\ Len(chans) < MaxChan
    /\ \E r \in {connect(Cli, chans, collected)} :
           /\ SetCli(r.cli)
           /\ chans' = r.chans
           /\ last' = Rec("connect", None, NoExc, IF r.waits THEN "term" ELSE "done",
                          r.cli, r.exc, IF r.exc = NoExc THEN None ELSE NoValue, NoValue,
                          NoReply, FALSE, FALSE, "none", r.trace)
    /\ UNCHANGED <<pending, nreq, scope, unwinding>>

\* The wait of connect in the termination of the context it dropped ends,
\* by a signal or because the peer took the queued request: connect, called
\* by the caller or by __enter__, runs to its end.
CallConnectResume(signal) ==
    /\ UNCHANGED cfgVars
    /\ last.op \in {"connect", "__enter__"}
    /\ last.pc = "term"
    /\ termEnds(chans, signal)
    /\ \E r \in {IF last.op = "connect" THEN connectResume(Cli, chans, signal)
                  ELSE enterResume(Cli, chans, signal)} :
           /\ SetCli(r.cli)
           /\ chans' = r.chans
           /\ scope' = IF r.exc # NoExc THEN "out" ELSE scope
           /\ last' = [last EXCEPT !.pc = "done", !.cli = r.cli, !.exc = r.exc,
                                   !.value = IF r.exc # NoExc THEN NoValue
                                             ELSE IF last.op = "connect" THEN None ELSE Self,
                                   !.trace = @ \o r.trace]
    /\ UNCHANGED <<pending, nreq, unwinding>>

\* ask(message) is called and runs until it waits in recv, or raises before.
CallAskSend(message, caught) ==
    /\ UNCHANGED cfgVars
    /\ Idle
    /\ unwinding = NoExc
    /\ nreq < MaxReq
    /\ \E r \in {askSend(Cli, chans, nreq, message)} :
           /\ SetCli(r.cli)
           /\ chans' = r.chans
           /\ nreq' = r.nreq
           /\ unwinding' = Leaves(r.exc, caught)
           /\ last' = Rec("ask", message, NoExc,
                          IF r.waits THEN "recv" ELSE Position(r.chans),
                          r.cli, r.exc, r.value, r.value, r.reply, r.again, r.timedout,
                          r.diag, r.trace)
    /\ UNCHANGED <<pending, scope>>

\* The wait of ask in recv ends, by a reply, by the timeout or by a signal,
\* and ask runs to its end.
CallAskRecv(signal, caught, collected) ==
    /\ UNCHANGED cfgVars
    /\ last.op = "ask"
    /\ last.pc = "recv"
    /\ \E r \in {askRecv(Cli, chans, nreq, last.message, signal, collected)} :
           /\ Len(r.chans) <= MaxChan
           /\ nreq' = r.nreq
           /\ SetCli(r.cli)
           /\ chans' = r.chans
           /\ unwinding' = Leaves(r.exc, caught)
           /\ last' = Resumed(r, r.value, r.value)
    /\ UNCHANGED <<pending, scope>>

CallDisconnect(caught) ==
    /\ UNCHANGED cfgVars
    /\ Idle
    /\ unwinding = NoExc
    /\ \E r \in {disconnect(Cli, chans)} :
           /\ SetCli(r.cli)
           /\ chans' = r.chans
           /\ unwinding' = Leaves(r.exc, caught)
           /\ last' = Rec("disconnect", None, NoExc, "done", r.cli, r.exc,
                          IF r.exc = NoExc THEN None ELSE NoValue, NoValue,
                          NoReply, FALSE, FALSE, "none", r.trace)
    /\ UNCHANGED <<pending, nreq, scope>>

\* with cli: -- entering the block
CallEnter(collected) ==
    /\ UNCHANGED cfgVars
    /\ Idle
    /\ scope = "out"
    /\ unwinding = NoExc
    /\ ~connected => Len(chans) < MaxChan
    /\ \E r \in {enter(Cli, chans, collected)} :
           /\ SetCli(r.cli)
           /\ chans' = r.chans
           /\ last' = Rec("__enter__", None, NoExc, IF r.waits THEN "term" ELSE "done",
                          r.cli, r.exc, r.value, NoValue, NoReply, FALSE, FALSE, "none",
                          r.trace)
           /\ scope' = IF r.exc # NoExc THEN "out" ELSE "in"
    /\ UNCHANGED <<pending, nreq, unwinding>>

\* Code of the caller in the body of the block fails on its own.
BodyRaises ==
    /\ UNCHANGED cfgVars
    /\ Idle
    /\ scope = "in"
    /\ unwinding = NoExc
    /\ unwinding' = [type |-> "ValueError", payload |-> "raised in the body"]
    /\ last' = Rec("body", None, NoExc, "done", Cli, unwinding', NoValue, NoValue,
                   NoReply, FALSE, FALSE, "none", <<>>)
    /\ UNCHANGED <<cliVars, chans, pending, nreq, scope>>

\* with cli: -- leaving the block, normally or with the exception unwinding
CallExit ==
    /\ UNCHANGED cfgVars
    /\ Idle
    /\ scope = "in"
    /\ \E r \in {exit(Cli, chans)} :
       \E out \in {WithOutcome(unwinding, r)} :
           /\ SetCli(r.cli)
           /\ chans' = r.chans
           /\ last' = Rec("__exit__", None, unwinding, "done", r.cli, out,
                          IF out = NoExc THEN None ELSE NoValue, NoValue,
                          NoReply, FALSE, FALSE, "none", r.trace)
    /\ scope' = "out"
    /\ unwinding' = NoExc
    /\ UNCHANGED <<pending, nreq>>

\* sendRequest(message, host, port) is called and runs until its ask waits.
CallSendRequestSend(message, h, p) ==
    /\ UNCHANGED cfgVars
    /\ Idle
    /\ unwinding = NoExc
    /\ nreq < MaxReq
    /\ Len(chans) < MaxChan
    /\ \E r \in {sendRequestSend(message, h, p, chans, nreq)} :
           /\ chans' = r.chans
           /\ nreq' = r.nreq
           /\ last' = Rec("sendRequest", message, NoExc,
                          IF r.waits THEN "recv" ELSE Position(r.chans),
                          r.cli, r.exc, r.value, r.askValue, r.reply, r.again, r.timedout,
                          r.diag, r.trace)
    /\ UNCHANGED <<cliVars, pending, scope, unwinding>>

\* The wait of sendRequest's ask ends and sendRequest runs to its end.
CallSendRequestRecv(signal, collected) ==
    /\ UNCHANGED cfgVars
    /\ last.op = "sendRequest"
    /\ last.pc = "recv"
    /\ \E r \in {sendRequestRecv(last.cli, chans, nreq, last.message, signal, collected)} :
           /\ Len(r.chans) <= MaxChan
           /\ chans' = r.chans
           /\ nreq' = r.nreq
           /\ last' = Resumed(r, r.value, r.askValue)
    /\ UNCHANGED <<cliVars, pending, scope, unwinding>>

\* The network: the peer listens and takes the request queued on socket s.
Transmit(s) ==
    /\ UNCHANGED cfgVars
    /\ chans[s].outbox # <<>>
    /\ pending' = pending \cup {Head(chans[s].outbox)}
    /\ chans' = [chans EXCEPT ![s].outbox = <<>>, ![s].terminating = FALSE]
    /\ UNCHANGED <<cliVars, nreq, scope, unwinding>>
    /\ last' = Env

\* The server answers a request it has received, in time or too late.
ServerReply(rq, e) ==
    /\ UNCHANGED cfgVars
    /\ rq \in pending
    /\ chans' = Deliver(chans, rq.chan, ServerResponse(Answer(rq.msg), e, rq.req))
    /\ pending' = pending \ {rq}
    /\ UNCHANGED <<cliVars, nreq, scope, unwinding>>
    /\ last' = Env

\* A socket the program dropped, and its context, are destroyed: the last
\* reference to them went away, or the garbage collector ran.  It shows when
\* the socket was left open or a request is still queued on it.
Finalize(s) ==
    /\ UNCHANGED cfgVars
    /\ Idle
    /\ s # socket
    /\ ~chans[s].abandoned
    /\ chans[s].open \/ chans[s].outbox # <<>>
    /\ chans' = Finalized(chans, s)
    /\ UNCHANGED <<cliVars, pending, nreq, scope, unwinding>>
    /\ last' = Env

\* The wait of ask in the termination of the context dropped at the end of
\* its handler ends, by a signal or because the peer took the queued request,
\* and ask returns.
TermReturns(signal) ==
    /\ UNCHANGED cfgVars
    /\ last.op = "ask"
    /\ last.pc = "term"
    /\ termEnds(chans, signal)
    /\ chans' = IF signal THEN termInterrupted(chans) ELSE chans
    /\ last' = [last EXCEPT !.pc = "done"]
    /\ UNCHANGED <<cliVars, pending, nreq, scope, unwinding>>

\* A signal ends the termination of a context that was destroyed between
\* two calls.
TermInterrupted ==
    /\ UNCHANGED cfgVars
    /\ last.pc = "done"
    /\ Blocked(chans)
    /\ chans' = termInterrupted(chans)
    /\ UNCHANGED <<cliVars, pending, nreq, scope, unwinding>>
    /\ last' = Env

Next ==
    \/ \E collected \in BOOLEAN : CallConnect(collected)
    \/ \E signal \in BOOLEAN : CallConnectResume(signal)
    \/ \E message \in Messages, caught \in Handled : CallAskSend(message, caught)
    \/ \E signal \in BOOLEAN, caught \in Handled, collected \in BOOLEAN :
            CallAskRecv(signal, caught, collected)
    \/ \E caught \in Handled : CallDisconnect(caught)
    \/ \E s \in 1..Len(chans) : Transmit(s)
    \/ \E rq \in pending, e \in Errors : ServerReply(rq, e)
    \/ \E s \in 1..Len(chans) : Finalize(s)
    \/ \E signal \in BOOLEAN : TermReturns(signal)
    \/ TermInterrupted

\* One session used through connect, ask and disconnect.
Spec == Init /\ [][Next]_vars

NextWith ==
    \/ \E collected \in BOOLEAN : CallEnter(collected)
    \/ \E signal \in BOOLEAN : CallConnectResume(signal)
    \/ \E message \in Messages, caught \in Handled : CallAskSend(message, caught)
    \/ \E signal \in BOOLEAN, caught \in Handled, collected \in BOOLEAN :
            CallAskRecv(signal, caught, collected)
    \/ BodyRaises
    \/ CallExit
    \/ \E s \in 1..Len(chans) : Transmit(s)
    \/ \E rq \in pending, e \in Errors : ServerReply(rq, e)
    \/ \E s \in 1..Len(chans) : Finalize(s)
    \/ \E signal \in BOOLEAN : TermReturns(signal)
    \/ TermInterrupted

\* One session used in with blocks.
SpecWith == Init /\ [][NextWith]_vars

NextSendRequest ==
    \/ \E message \in Messages, h \in Hosts \cup BadHosts, p \in Ports :
            CallSendRequestSend(message, h, p)
    \/ \E signal \in BOOLEAN, collected \in BOOLEAN : CallSendRequestRecv(signal, collected)
    \/ \E s \in 1..Len(chans) : Transmit(s)
    \/ \E rq \in pending, e \in Errors : ServerReply(rq, e)
    \/ \E s \in 1..Len(chans) : Finalize(s)
    \/ TermInterrupted

\* Calls of the one-shot helper.
SpecSendRequest == Init /\ [][NextSendRequest]_vars

\* The session of a behaviour that only loads a configuration.
InitConfig ==
    /\ SessionInit("localhost", 5555, FALSE, DefaultTimeout, TRUE)
    /\ configDoc = <<>>
    /\ loaded = NotLoaded

\* The configuration file is written, one instrument after the other, before
\* it is loaded.
WriteInstrument(configDict) ==
    /\ loaded.pc = "start"
    /\ Len(configDoc) < MaxInstruments
    /\ configDoc' = Append(configDoc, <<InstrumentNames[Len(configDoc) + 1], configDict>>)
    /\ UNCHANGED loaded
    /\ UNCHANGED sessionVars

CallLoadConfig ==
    /\ loaded.pc = "start"
    /\ \E r \in {loadConfig(configDoc)} : loaded' = r
    /\ UNCHANGED configDoc
    /\ UNCHANGED sessionVars

NextConfig ==
    \/ \E configDict \in InstrumentConfigs : WriteInstrument(configDict)
    \/ CallLoadConfig

\* One call of loadConfig on a configuration file.
SpecConfig == InitConfig /\ [][NextConfig]_vars

TypeOK ==
    /\ connected \in BOOLEAN
    /\ socket \in 0..Len(chans)
    /\ context = socket
    /\ addr = Addr(host, port)
    /\ Len(chans) <= MaxChan
    /\ nreq <= MaxReq
    /\ scope \in {"out", "in"}
    /\ last.pc \in {"done", "recv", "term"}

----------------------------------------------------------------------------
\* Properties.  Each is read in the state right after a call: last describes
\* the call and the state it started from, the variables are the state it left.

\* The call in last is an ask that has ended, on a session that was connected
\* or not when it started.
AskOn(conn) == last.op = "ask" /\ last.pc = "done" /\ last.pre.connected = conn

\* The call in last received a reply; the reply answers the call's own request.
ReplyReceived == last.reply # NoReply
OwnReply ==
    /\ last.reply.req = last.prenreq + 1
    /\ last.reply.message = Answer(last.message)

SessionUnchanged == Cli = last.pre
TransportUnchanged ==
    /\ Len(chans) = last.prelen
    /\ nreq = last.prenreq
    /\ SocketSeen(Cli, chans) = last.presock

\* C1: ask on a session whose connected flag is false fails with the "not
\* connected" error for every message, makes no send and no receive, and
\* leaves every session field and the session's socket untouched.
C1_AskDisconnectedFails ==
    AskOn(FALSE) =>
        /\ last.exc = StateError
        /\ last.value = NoValue
        /\ Count(last.trace, "send") = 0
        /\ Count(last.trace, "recv") = 0
        /\ SessionUnchanged
        /\ TransportUnchanged

\* An ask on a session that was connected and then disconnected.
C1_Witness ==
    /\ AskOn(FALSE)
    /\ last.pre.socket # NoSock
    /\ last.message = "ping"
    /\ last.exc = StateError

\* C2: on a connected session with raise_exceptions false, no outcome that ask
\* classifies makes it fail: when a reply arrives, whatever its error
\* descriptor, ask returns the message field of that reply, and when the
\* receive times out it returns None.  What still leaves such an ask is a
\* signal during the wait, and the state error of a socket that an
\* interrupted wait left awaiting its reply.
C2_NoRaiseNeverFails ==
    (AskOn(TRUE) /\ ~last.pre.raise_exceptions) =>
        /\ ReplyReceived => last.exc = NoExc /\ OwnReply /\ last.value = last.reply.message
        /\ last.again => last.exc = NoExc /\ last.value = None
        /\ last.exc # NoExc =>
               \/ last.exc = KeyboardInterrupt
               \/ last.exc = ZMQError /\ last.presock.interrupted

\* A server exception arrives with the flag off and the message is returned.
C2_Witness ==
    /\ AskOn(TRUE)
    /\ ~last.pre.raise_exceptions
    /\ ReplyReceived
    /\ last.reply.error.kind = "Exception"
    /\ last.value = "pong"

\* C3 as stated: on a connected session with raise_exceptions true the outcome
\* of ask is fixed by what arrives: no error, a text or a warning returns the
\* message of the reply (a warning is also issued as a warning); an exception
\* is raised as it came, with no value; an error of unknown type raises
\* TypeError; a timeout of the receive raises the timeout RuntimeError, and
\* nothing else does.
C3_RaiseOutcomes ==
    (AskOn(TRUE) /\ last.pre.raise_exceptions) =>
        LET e == last.reply.error
        IN  /\ last.again => last.exc = TimeoutError /\ last.value = NoValue
            /\ last.exc = TimeoutError => last.again
            /\ ReplyReceived =>
                 /\ OwnReply
                 /\ e.kind \in {"NoneType", "str", "Warning"} =>
                        last.exc = NoExc /\ last.value = last.reply.message
                 /\ e.kind = "Warning" => last.diag = "warnings.warn"
                 /\ e.kind = "Exception" =>
                        last.exc = ServerError(e) /\ last.value = NoValue
                 /\ e.kind = "other" =>
                        last.exc = UnrecognizedErrorShape(e) /\ last.value = NoValue

UnknownErrorArrives == AskOn(TRUE) /\ ReplyReceived /\ last.reply.error.kind = "other"

\* C4 as stated: a reply whose error is of unknown type makes ask fail with
\* the unrecognized-shape error under both values of raise_exceptions.
C4_UnknownAlwaysFatal ==
    UnknownErrorArrives => last.exc = UnrecognizedErrorShape(last.reply.error)

\* C4 amended: a reply whose error is of unknown type makes ask fail with the
\* unrecognized-shape error exactly when raise_exceptions is true; when it is
\* false ask logs the error and returns the message of the reply.
C4_UnknownFatalIffRaise ==
    UnknownErrorArrives =>
        /\ last.pre.raise_exceptions =>
               last.exc = UnrecognizedErrorShape(last.reply.error) /\ last.value = NoValue
        /\ ~last.pre.raise_exceptions =>
               /\ last.exc = NoExc
               /\ last.value = Answer(last.message)
               /\ last.diag = "logger.error"

\* An error of unknown type arrives with the flag off.
C4_Witness ==
    /\ UnknownErrorArrives
    /\ ~last.pre.raise_exceptions
    /\ last.exc = NoExc
    /\ last.value = "pong"

\* The receive of the ask in last timed out: recv raised zmq.error.Again.
ReceiveTimedOut == AskOn(TRUE) /\ last.again

\* C5: when the receive of an ask times out, then at the end of the ask (raised
\* or returned) the socket that timed out is closed, the session's socket is
\* one created during the call, open, with the session's receive timeout and
\* connected to the session's unchanged address, and connected is still true.
C5_TimeoutReplacesChannel ==
    ReceiveTimedOut =>
        /\ ~chans[last.pre.socket].open
        /\ socket > last.prelen
        /\ socket = Len(chans)
        /\ Len(chans) = last.prelen + 1
        /\ chans[socket].open
        /\ chans[socket].fsm = "ready"
        /\ chans[socket].rcvtimeo = recv_timeout
        /\ chans[socket].peer = addr
        /\ addr = last.pre.addr
        /\ recv_timeout = last.pre.recv_timeout
        /\ connected
        /\ last.exc = (IF last.pre.raise_exceptions THEN TimeoutError ELSE NoExc)

\* A timeout on a session built with the short timeout, raised to the caller.
C5_Witness ==
    /\ ReceiveTimedOut
    /\ last.exc = TimeoutError
    /\ recv_timeout = 100
    /\ chans[socket].open

\* C6: when the receive of an ask times out and the very next call on the
\* session is an ask, that ask finds the socket ready and sends; when the
\* server answers it in time without an exception or an unknown error, it
\* succeeds and returns the server's reply to its own request ("pong" for
\* "ping").
C6_AskAfterTimeoutSucceeds ==
    (AskOn(TRUE) /\ last.afterTimeout) =>
        /\ last.presock.open
        /\ last.presock.fsm = "ready"
        /\ Count(last.trace, "send") = 1
        /\ (ReplyReceived /\ last.reply.error.kind \in {"NoneType", "str", "Warning"}) =>
               /\ last.exc = NoExc
               /\ OwnReply
               /\ last.reply.req = nreq
               /\ last.value = Answer(last.message)

\* The second "ping", right after a timeout, returns "pong".
C6_Witness ==
    /\ AskOn(TRUE)
    /\ last.afterTimeout
    /\ last.message = "ping"
    /\ ReplyReceived
    /\ last.reply.error = ErrNone
    /\ last.value = "pong"
    /\ last.prenreq = 1

ChannelKept ==
    /\ socket = last.pre.socket
    /\ Len(chans) = last.prelen
    /\ chans[socket].open

\* C7 as stated: an ask that receives a reply, whatever the error descriptor
\* and the flag, and whether it returns or raises, leaves connected true and
\* the session's socket the same open socket; an ask closes or replaces the
\* socket only when its receive timed out.
C7_ReplyKeepsChannel ==
    /\ (AskOn(TRUE) /\ ReplyReceived) => connected /\ ChannelKept
    /\ (AskOn(TRUE) /\ ~ChannelKept) => last.again

\* The session holds a socket that was created and is open.
ChannelValid == socket # NoSock /\ chans[socket].open

\* C8 as stated: after construction and after every call of connect, ask or
\* disconnect, returned or raised, the session holds an open socket exactly
\* when connected is true.
C8_ChannelValidIffConnected ==
    last.pc = "done" => (ChannelValid <=> connected)

\* C9: entering the with block calls connect exactly when the session is not
\* connected; leaving it, after a body that completed or that raised, runs
\* disconnect once, connected is false afterwards, and the exception of the
\* body is the one that leaves the block.
C9_ScopedUse ==
    /\ last.op = "__enter__" =>
            /\ Count(last.trace, "connect") = (IF last.pre.connected THEN 0 ELSE 1)
            /\ Len(chans) = last.prelen + (IF last.pre.connected THEN 0 ELSE 1)
            /\ last.pre.connected => SessionUnchanged
            /\ (last.pc = "done" /\ last.exc = NoExc) =>
                    connected /\ ChannelValid /\ last.value = Self
    /\ last.op = "__exit__" =>
            /\ Count(last.trace, "disconnect") = 1
            /\ ~connected
            /\ ~ChannelValid
            /\ last.exc = last.bodyExc

\* The block is left by the timeout error of an ask in its body.
C9_Witness ==
    /\ last.op = "__exit__"
    /\ last.bodyExc = TimeoutError
    /\ last.exc = TimeoutError
    /\ ~connected

\* The sockets created by the call in last.
Created == (last.prelen + 1)..Len(chans)

\* C10 as stated: sendRequest builds one session, asks once with the message
\* it was given and disconnects before it returns or raises: whether the ask
\* got a reply, a server exception or a timeout, or was interrupted, the
\* session ends disconnected with every socket it created closed, and a
\* successful call returns what ask returned.
C10_SendRequest ==
    (last.op = "sendRequest" /\ last.pc = "done") =>
        /\ Count(last.trace, "__init__") = 1
        /\ Count(last.trace, "ask") = 1
        /\ Count(last.trace, "send") = 1
        /\ nreq = last.prenreq + 1
        /\ ReplyReceived => OwnReply
        /\ last.trace[Len(last.trace) - 1] = "disconnect"
        /\ ~last.cli.connected
        /\ Created # {}
        /\ Cardinality(Created) = (IF last.timedout THEN 2 ELSE 1)
        /\ \A s \in Created : ~chans[s].open
        /\ last.cli.addr = Addr(last.cli.host, last.cli.port)
        /\ \A s \in Created : chans[s].peer = last.cli.addr
        /\ last.exc = NoExc => last.value = last.askValue /\ last.value = Answer(last.message)
        /\ last.exc # NoExc => last.value = NoValue

\* C11: an ask transmits its message at most once; after a timeout the
\* message is sent neither on the old socket again nor on the replacement;
\* and no call other than an ask puts a request on the wire.
C11_SentAtMostOnce ==
    /\ last.op = "ask" =>
            /\ Count(last.trace, "send") <= 1
            /\ nreq = last.prenreq +
                      (IF last.pre.connected /\ last.presock.open /\ last.presock.fsm = "ready"
                       THEN 1 ELSE 0)
    /\ ReceiveTimedOut =>
            /\ nreq = last.prenreq + 1
            /\ chans[socket].fsm = "ready"
            /\ chans[socket].outbox = <<>>
            /\ \A rq \in pending : rq.chan # socket
    /\ last.op # "ask" => nreq = last.prenreq
    /\ \A s \in 1..Len(chans) : Len(chans[s].outbox) <= 1

\* A "get" timed out: one request went out, on the socket that was closed.
C11_Witness ==
    /\ ReceiveTimedOut
    /\ last.message = "get"
    /\ nreq = last.prenreq + 1
    /\ ~chans[last.pre.socket].open

\* The session's socket is open, not awaiting a reply, with nothing queued.
ReadyToSend ==
    /\ socket # NoSock
    /\ chans[socket].open
    /\ chans[socket].fsm = "ready"
    /\ chans[socket].inbox = <<>>
    /\ chans[socket].outbox = <<>>

\* C16: in every sequence of completed calls in which replies, server errors
\* and timeouts occur (no wait was broken off by a signal), a connected
\* session's socket is open and ready to send between calls; so every ask on
\* a connected session sends once on a ready socket and ends in a reply
\* outcome or the timeout, never in a transport state error.
C16_AlwaysReadyToSend ==
    /\ (connected /\ last.pc = "done" /\ ~chans[socket].interrupted) => ReadyToSend
    /\ (AskOn(TRUE) /\ ~last.presock.interrupted) =>
            /\ last.presock.open
            /\ last.presock.fsm = "ready"
            /\ Count(last.trace, "send") = 1
            /\ Count(last.trace, "recv") = 1
            /\ last.exc \in {NoExc, TimeoutError, ServerError(last.reply.error),
                              UnrecognizedErrorShape(last.reply.error), KeyboardInterrupt}

\* An ask right after a timed-out ask gets its reply, a server exception.
C16_Witness ==
    /\ AskOn(TRUE)
    /\ last.afterTimeout
    /\ last.exc = ServerError([kind |-> "Exception", payload |-> "ValueError"])
    /\ connected
    /\ ReadyToSend

\* C17 as stated: disconnect, in any state reachable from the constructor (with
\* or without connect) and any calls, ends without error with connected
\* false and the session's socket closed; a later connect leaves the session
\* connected with a new open socket.
C17_DisconnectAlwaysSucceeds ==
    /\ last.op = "disconnect" =>
            /\ last.exc = NoExc
            /\ ~connected
            /\ socket # NoSock
            /\ ~chans[socket].open
    /\ last.op = "connect" =>
            /\ connected
            /\ socket = Len(chans)
            /\ Len(chans) = last.prelen + 1
            /\ chans[socket].open

\* C19: a reply an ask receives is the reply to the request that same ask
\* sent, so a value it returns is never the late reply to a timed-out request;
\* and a socket that is open and ready to send has no reply queued and no
\* request of its own unanswered, so no late reply can reach a later ask.
C19_NoStaleReply ==
    /\ (last.op = "ask" /\ ReplyReceived) => OwnReply
    /\ (last.op = "ask" /\ last.pc = "done" /\ last.exc = NoExc /\ last.value # None) =>
            last.value = Answer(last.message)
    /\ \A s \in 1..Len(chans) :
            (chans[s].open /\ chans[s].fsm = "ready") =>
                /\ chans[s].inbox = <<>>
                /\ chans[s].outbox = <<>>
                /\ \A rq \in pending : rq.chan # s

\* The server answered the timed-out first request late, then the second ask
\* was answered in time with its own reply.
C19_Witness ==
    /\ AskOn(TRUE)
    /\ last.afterTimeout
    /\ last.prenreq = 1
    /\ pending = {}
    /\ \A s \in 1..Len(chans) : chans[s].outbox = <<>>
    /\ ReplyReceived
    /\ last.reply.req = 2
    /\ last.value = Answer(last.message)

\* C20 as stated: after construction and after every call, in any order, at
\* most one socket the session created is open, and it is the one the session
\* references; after a disconnect none is open.
C20_AtMostOneOpen ==
    /\ \A s \in 1..Len(chans) : chans[s].open => s = socket
    /\ (last.op = "disconnect" /\ last.exc = NoExc) =>
            \A s \in 1..Len(chans) : ~chans[s].open

----------------------------------------------------------------------------
\* Properties of loadConfig, read once the call has ended.

\* The document as written, the instruments in it, and the residual document
\* as the downstream consumer reads it back from the temporary file.
Input == Load(configDoc).instruments
InputNames == DOMAIN Input
Returned == loaded.pc = "returned"
Residual == Load(loaded.stationConfig).instruments
ExtractedFields == {"gui"} \cup {ServerFieldNames[i] : i \in 1..Len(ServerFieldNames)}

\* str.lower on the type names of the model.
Lower(t) == IF t \in {"generic", "Generic", "GENERIC"} THEN "generic" ELSE t

\* The type an instrument's gui sub-document asks for, "" when it names none.
GuiTypeAsked(n) ==
    IF Has(Input[n], "gui") /\ ~IsNone(Input[n]["gui"]) /\ Has(Input[n]["gui"].map, "type")
    THEN Input[n]["gui"].map["type"].scalar
    ELSE ""

\* C12 as stated: for every instrument whose gui type is "generic" in any
\* letter casing, the GUI view has the canonical default class path as type.
C12_GenericAnyCasing ==
    Returned =>
        \A n \in InputNames :
            Lower(GuiTypeAsked(n)) = "generic" =>
                loaded.guiConfig[n]["type"] =
                    Scalar("instrumentserver.gui.instruments.GenericInstrument")

\* C13: for every instrument and every server field: a field present with a
\* null value makes loadConfig raise the null-field error and return no view;
\* when it returns, a field present has its value in serverConfig and a field
\* absent has the declared default.
C13_ServerFields ==
    loaded.pc # "start" =>
        /\ (\E n \in InputNames : \E f \in ExtractedFields \ {"gui"} :
                Has(Input[n], f) /\ Input[n][f] = Null) =>
               /\ loaded.pc = "raised"
               /\ loaded.exc.type = "AttributeError"
               /\ loaded.serverConfig = EmptyMap
               /\ loaded.guiConfig = EmptyMap
               /\ loaded.fullConfig = EmptyMap
               /\ loaded.stationConfig = <<>>
        /\ Returned =>
               \A n \in InputNames :
                   /\ DOMAIN loaded.serverConfig[n] = ExtractedFields \ {"gui"}
                   /\ \A f \in ExtractedFields \ {"gui"} :
                          loaded.serverConfig[n][f] =
                              (IF Has(Input[n], f) THEN Input[n][f]
                               ELSE IF f = "initialize" THEN Scalar("True") ELSE Null)

\* The second instrument sets initialize to null and the call raises for it.
C13_Witness ==
    /\ loaded.pc = "raised"
    /\ loaded.exc = NullFieldError("initialize")
    /\ Len(configDoc) = 2
    /\ ~Has(Input["dmm"], "initialize")
    /\ Has(Input["vna"], "initialize")

\* C14: for every instrument without a gui field, the GUI view is the whole
\* default descriptor: the canonical default class path as type and an empty
\* kwargs mapping.
C14_DefaultGui ==
    Returned =>
        \A n \in InputNames :
            ~Has(Input[n], "gui") =>
                /\ DOMAIN loaded.guiConfig[n] = {"type", "kwargs"}
                /\ loaded.guiConfig[n]["type"] =
                       Scalar("instrumentserver.gui.instruments.GenericInstrument")
                /\ loaded.guiConfig[n]["kwargs"] = Mapping(EmptyMap)
                /\ loaded.fullConfig[n]["gui"] = Mapping(loaded.guiConfig[n])

\* One instrument has no gui field, the other names a custom gui.
C14_Witness ==
    /\ Returned
    /\ Len(configDoc) = 2
    /\ ~Has(Input["dmm"], "gui")
    /\ GuiTypeAsked("vna") = "my.gui.Custom"
    /\ loaded.guiConfig["dmm"]["kwargs"] = Mapping(EmptyMap)

\* C15: when loadConfig returns, the residual document has the instruments of
\* the input in the same order, and for each of them none of the extracted
\* fields (server fields, gui) and every other field with its original value.
C15_Residual ==
    Returned =>
        /\ Load(loaded.stationConfig).names = Load(configDoc).names
        /\ \A n \in InputNames :
               /\ DOMAIN Residual[n] = DOMAIN Input[n] \ ExtractedFields
               /\ \A k \in DOMAIN Residual[n] : Residual[n][k] = Input[n][k]

\* An instrument with a server field, a gui and two other fields was split.
C15_Witness ==
    /\ Returned
    /\ Len(configDoc) >= 1
    /\ DOMAIN Input["dmm"] = {"initialize", "gui", "type", "address"}
    /\ DOMAIN Residual["dmm"] = {"type", "address"}

\* C18: when loadConfig returns, the three views have exactly the input's
\* instrument names as keys, and fullConfig[name] holds the GUI view under
\* "gui", every remaining raw field and every server field, each with the
\* value it has in its source view, and nothing else.
C18_FullConfig ==
    Returned =>
        /\ DOMAIN loaded.serverConfig = InputNames
        /\ DOMAIN loaded.guiConfig = InputNames
        /\ DOMAIN loaded.fullConfig = InputNames
        /\ \A n \in InputNames :
               LET full == loaded.fullConfig[n]
               IN  /\ DOMAIN full = {"gui"} \cup DOMAIN Residual[n]
                                          \cup DOMAIN loaded.serverConfig[n]
                   /\ full["gui"] = Mapping(loaded.guiConfig[n])
                   /\ \A k \in DOMAIN Residual[n] : full[k] = Residual[n][k]
                   /\ \A k \in DOMAIN loaded.serverConfig[n] :
                          full[k] = loaded.serverConfig[n][k]

\* Two instruments, the first with initialize off and a custom gui.
C18_Witness ==
    /\ Returned
    /\ Len(configDoc) = 2
    /\ Has(Input["dmm"], "initialize")
    /\ GuiTypeAsked("dmm") = "my.gui.Custom"
    /\ loaded.fullConfig["dmm"]["initialize"] = Scalar("False")
    /\ loaded.fullConfig["vna"]["initialize"] = Scalar("True")

====
